---- MODULE Spec2Model ----
(***************************************************************************)
(* Sliding-window rate limiter of the API gateway                          *)
(* (middleware/rateLimiter.ts): the rateLimiter middleware, checkRateLimit *)
(* with its Redis Lua script, and getRateLimitStatus, over a model of the  *)
(* Redis sorted set ratelimit:{apiKeyId} with its key expiration.          *)
(***************************************************************************)
EXTENDS Integers, FiniteSets, Sequences, TLC

\* ------------------------------------------------------------------ bounds
MaxReq == 3          \* requests issued in one behaviour
MaxLimit == 2        \* largest rate_limit_per_hour of a key in the model
MaxTicks == 2        \* clock advances in one behaviour
MaxInFlight == 2     \* requests in flight at the same time
MaxOutages == 1      \* times the store becomes unreachable in one behaviour
Epoch == 5000000     \* Date.now() of the initial state (ms)

\* ------------------------------------------------------- program constants
WindowMs == 3600000
MsPerSec == 1000
TOO_MANY_REQUESTS == 429
UNAUTHORIZED == 401

Principals == {"A", "B"}
\* two of the routes mounted behind authenticate and rateLimiter
Endpoints == {"/auth/keys", "/usage/quota"}
\* the limiter never reads the route: the concurrent specification sends its
\* requests to one route, the sequential one to both
OneRoute == {"/auth/keys"}
ReqIds == 1..MaxReq
\* clock advances offered to the model: 1 ms, one second, one window less
\* 1 ms, one window
Steps == {1, MsPerSec, WindowMs - 1, WindowMs}
NoExpire == -1       \* a key without time-to-live (Redis TTL reply -1)
NaN == -1000000000   \* the JavaScript number NaN

\* mutant: the key does not depend on the api key's id
RATE_LIMIT_Shared(apiKeyId) == "ratelimit:"

\* REDIS_KEYS.RATE_LIMIT
RATE_LIMIT(apiKeyId) == "ratelimit:" \o apiKeyId
Keys == {RATE_LIMIT(p) : p \in Principals}

VARIABLES
  clock,      \* Date.now(), also the Redis server's time (ms)
  redisUp,    \* the store is reachable and its commands run
  limit,      \* api_keys.rate_limit_per_hour of each principal
  store,      \* store[k]: the sorted set at key k and its expiration
  shadow,     \* the store as the same run leaves it when no peek runs
  req,        \* req[i]: the request i, its position and its outcome
  ticks,      \* clock advances so far
  outages,    \* store outages so far
  ops         \* ops[k]: commands and scripts the store has run on key k

vars == <<clock, redisUp, limit, store, shadow, req, ticks, outages, ops>>

\* ------------------------------------------------------------ arithmetic
\* Math.ceil(x / d) for an integer x and a positive integer d
CeilDiv(x, d) == -((-x) \div d)

Max(a, b) == IF a >= b THEN a ELSE b

\* ------------------------------------------------------ Redis sorted set
\* an entry of the sorted set: member (the request's UUID) and score
Entry(m, s) == [member |-> m, score |-> s]

EmptyKey == [set |-> {}, expireAt |-> NoExpire]

\* a key whose time-to-live has run out at time t is gone
Reap(k, t) == IF k.expireAt # NoExpire /\ t > k.expireAt THEN EmptyKey ELSE k

\* a sorted set that a command left empty is deleted with its time-to-live
KeyWith(k, S) == IF S = {} THEN EmptyKey ELSE [k EXCEPT !.set = S]

\* mutant: the time-to-live taken in milliseconds (PEXPIRE)
Expire_Millis(k, seconds, t) == IF k.set = {} THEN k ELSE [k EXCEPT !.expireAt = t + seconds]

\* EXPIRE key seconds, run at server time t
Expire(k, seconds, t) == IF k.set = {} THEN k ELSE [k EXCEPT !.expireAt = t + seconds * MsPerSec]

\* mutant: the range's upper end taken as exclusive
ZRemRangeByScore_Exclusive(S, max) == {e \in S : ~(e.score < max)}

\* ZREMRANGEBYSCORE key -inf max: removes the members with score <= max
ZRemRangeByScore(S, max) == {e \in S : ~(e.score <= max)}

\* ZCARD key
ZCard(S) == Cardinality(S)

\* the least score of a non-empty sorted set
MinScore(S) == CHOOSE s \in {e.score : e \in S} : \A e \in S : s <= e.score

\* the least member (in the set's order of members) among the entries E
MinMember(E) == CHOOSE m \in {e.member : e \in E} : \A e \in E : m <= e.member

\* ZRANGE key 0 0 WITHSCORES: the member of rank 0 and its score
ZRangeFirstWithScores(S) ==
  IF S = {} THEN <<>>
  ELSE LET lo == MinScore(S)
       IN <<MinMember({x \in S : x.score = lo}), lo>>

\* ZRANGE key min max BYSCORE (zRange with BY: 'SCORE', REV: false): the
\* members whose score lies in [min, max], least first; the model keeps the
\* first one, the only one its caller reads
ZRangeByScore(S, min, max) ==
  LET hit == {e \in S : min <= e.score /\ e.score <= max}
  IN IF hit = {} THEN <<>>
     ELSE LET lo == MinScore(hit) IN <<MinMember({x \in hit : x.score = lo})>>

\* parseInt of a member: the request's UUID read as a decimal number, which
\* is its leading digits, or NaN when it starts with a letter
ParseInt(member) == IF member % 2 = 0 THEN NaN ELSE member

\* mutant: the member derived from the timestamp, so that entries of one
\* millisecond are one member
ZAdd_ByScore(S, score, member) == {e \in S : e.score # score} \cup {Entry(member, score)}

\* mutant: NX-less update keyed by the millisecond, the member being the
\* first request's of that millisecond
ZAdd_KeepFirst(S, score, member) ==
  IF \E e \in S : e.score = score THEN S ELSE S \cup {Entry(member, score)}

\* ZADD key score member: adds the member, or moves it to the new score
ZAdd(S, score, member) == {e \in S : e.member # member} \cup {Entry(member, score)}


\* ------------------------------------------------- mutants of the script
\* mutant: the limit test lets one request too many through
LuaScript_OffByOne(S, now, windowStart, lim, requestId, windowMs) ==
  LET purged == {e \in S : ~(e.score <= windowStart)}
      count  == Cardinality(purged)
  IN IF count > lim
     THEN [set |-> purged, expire |-> FALSE,
           reply |-> <<0, count, IF purged # {} THEN MinScore(purged) + windowMs ELSE 0>>]
     ELSE [set |-> ZAdd(purged, now, requestId), expire |-> TRUE,
           reply |-> <<1, count + 1, now + windowMs>>]

\* mutant: the reply carries the count before the insertion
LuaScript_CountBefore(S, now, windowStart, lim, requestId, windowMs) ==
  LET purged == {e \in S : ~(e.score <= windowStart)}
      count  == Cardinality(purged)
  IN IF count >= lim
     THEN [set |-> purged, expire |-> FALSE,
           reply |-> <<0, count, IF purged # {} THEN MinScore(purged) + windowMs ELSE 0>>]
     ELSE [set |-> ZAdd(purged, now, requestId), expire |-> TRUE,
           reply |-> <<1, count, now + windowMs>>]

\* mutant: the purge runs up to now instead of up to windowStart
LuaScript_PurgeNow(S, now, windowStart, lim, requestId, windowMs) ==
  LET purged == {e \in S : ~(e.score <= now)}
      count  == Cardinality(purged)
  IN IF count >= lim
     THEN [set |-> purged, expire |-> FALSE,
           reply |-> <<0, count, IF purged # {} THEN MinScore(purged) + windowMs ELSE 0>>]
     ELSE [set |-> ZAdd(purged, now, requestId), expire |-> TRUE,
           reply |-> <<1, count + 1, now + windowMs>>]

\* mutant: the reject branch derives the reset time from now
LuaScript_ResetNow(S, now, windowStart, lim, requestId, windowMs) ==
  LET purged == {e \in S : ~(e.score <= windowStart)}
      count  == Cardinality(purged)
  IN IF count >= lim
     THEN [set |-> purged, expire |-> FALSE, reply |-> <<0, count, now + windowMs>>]
     ELSE [set |-> ZAdd(purged, now, requestId), expire |-> TRUE,
           reply |-> <<1, count + 1, now + windowMs>>]

\* mutant: EXPIRE runs before the limit test, on rejections too
LuaScript_ExpireAlways(S, now, windowStart, lim, requestId, windowMs) ==
  LET purged == {e \in S : ~(e.score <= windowStart)}
      count  == Cardinality(purged)
  IN IF count >= lim
     THEN [set |-> purged, expire |-> TRUE,
           reply |-> <<0, count, IF purged # {} THEN MinScore(purged) + windowMs ELSE 0>>]
     ELSE [set |-> ZAdd(purged, now, requestId), expire |-> TRUE,
           reply |-> <<1, count + 1, now + windowMs>>]

\* mutant: ZADD runs before the limit test, so that rejected requests leave
\* an entry too
LuaScript_AddFirst(S, now, windowStart, lim, requestId, windowMs) ==
  LET purged == {e \in S : ~(e.score <= windowStart)}
      count  == Cardinality(purged)
      added  == ZAdd(purged, now, requestId)
  IN IF count >= lim
     THEN [set |-> added, expire |-> FALSE,
           reply |-> <<0, count, IF purged # {} THEN MinScore(purged) + windowMs ELSE 0>>]
     ELSE [set |-> added, expire |-> TRUE, reply |-> <<1, count + 1, now + windowMs>>]

\* ------------------------------------------------------- the Lua script
\* one atomic execution of the script on the sorted set S; `expire' tells
\* whether EXPIRE ran
LuaScript(S, now, windowStart, lim, requestId, windowMs) ==
  LET purged == ZRemRangeByScore(S, windowStart)
      count  == ZCard(purged)
      oldest == ZRangeFirstWithScores(purged)
  IN IF count >= lim
     THEN [set    |-> purged,
           expire |-> FALSE,
           reply  |-> <<0, count, IF Len(oldest) > 0 THEN oldest[2] + windowMs ELSE 0>>]
     ELSE [set    |-> ZAdd(purged, now, requestId),
           expire |-> TRUE,
           reply  |-> <<1, count + 1, now + windowMs>>]

\* the key after the script ran at server time t
KeyAfterScript(k, sc, t, windowMs) ==
  IF sc.expire THEN Expire(KeyWith(k, sc.set), CeilDiv(windowMs, MsPerSec), t)
  ELSE KeyWith(k, sc.set)

\* ----------------------------------------------- checkRateLimit, client side
\* the RateLimitError thrown for a reply with allowed = 0
RateLimitError(lim, reset, retryAfter) ==
  [thrown |-> TRUE, failOpen |-> FALSE, limit |-> lim, remaining |-> 0,
   reset |-> reset, retryAfter |-> retryAfter]

\* a RateLimitInfo returned to the caller
RateLimitInfo(lim, remaining, reset) ==
  [thrown |-> FALSE, failOpen |-> FALSE, limit |-> lim, remaining |-> remaining,
   reset |-> reset, retryAfter |-> 0]

\* mutant: Math.floor in place of Math.ceil for the retry delay
FromReply_Floor(lim, now, reply) ==
  IF reply[1] = 0
  THEN RateLimitError(lim, CeilDiv(reply[3], MsPerSec), (reply[3] - now) \div MsPerSec)
  ELSE RateLimitInfo(lim, lim - reply[2], CeilDiv(reply[3], MsPerSec))

\* what checkRateLimit makes of the script's reply
FromReply(lim, now, reply) ==
  IF reply[1] = 0
  THEN RateLimitError(lim, CeilDiv(reply[3], MsPerSec), CeilDiv(reply[3] - now, MsPerSec))
  ELSE RateLimitInfo(lim, lim - reply[2], CeilDiv(reply[3], MsPerSec))

\* mutant: the catch block fails closed
Permissive_FailClosed(lim, now, windowMs) ==
  [RateLimitError(lim, CeilDiv(now + windowMs, MsPerSec), CeilDiv(windowMs, MsPerSec))
     EXCEPT !.failOpen = TRUE]

\* mutant: the catch block reports the quota as used up
Permissive_NoneLeft(lim, now, windowMs) ==
  [RateLimitInfo(lim, 0, CeilDiv(now + windowMs, MsPerSec)) EXCEPT !.failOpen = TRUE]

\* the permissive result of the catch blocks (fail open)
Permissive(lim, now, windowMs) ==
  [RateLimitInfo(lim, lim, CeilDiv(now + windowMs, MsPerSec)) EXCEPT !.failOpen = TRUE]

\* mutant: the status counts the asking request as if it were admitted
StatusInfo_CountsItself(lim, now, windowMs, count, oldest) ==
  RateLimitInfo(lim, Max(0, lim - count - 1),
                IF Len(oldest) > 0 THEN NaN ELSE CeilDiv(now + windowMs, MsPerSec))

\* what getRateLimitStatus makes of zCard's count and zRange's members
StatusInfo(lim, now, windowMs, count, oldest) ==
  LET resetTime == IF Len(oldest) > 0
                   THEN (IF ParseInt(oldest[1]) = NaN THEN NaN
                         ELSE ParseInt(oldest[1]) + windowMs)
                   ELSE now + windowMs
  IN RateLimitInfo(lim, Max(0, lim - count),
                   IF resetTime = NaN THEN NaN ELSE CeilDiv(resetTime, MsPerSec))

\* ------------------------------------------------- rateLimiter, HTTP side
RateLimitHeaders == {"X-RateLimit-Limit", "X-RateLimit-Remaining", "X-RateLimit-Reset"}
NoBody == [limit |-> 0, remaining |-> 0, reset |-> 0, retryAfter |-> 0]

\* mutant: the rejection is answered without the Retry-After header
Respond_NoRetryAfter(out) ==
  [handler |-> ~out.thrown,
   status  |-> IF out.thrown THEN TOO_MANY_REQUESTS ELSE 0,
   headers |-> [h \in RateLimitHeaders |->
                  CASE h = "X-RateLimit-Limit"     -> out.limit
                    [] h = "X-RateLimit-Remaining" -> out.remaining
                    [] h = "X-RateLimit-Reset"     -> out.reset],
   body    |-> IF out.thrown
               THEN [limit |-> out.limit, remaining |-> out.remaining,
                     reset |-> out.reset, retryAfter |-> out.retryAfter]
               ELSE NoBody]

\* mutant: the catch block calls next() without the error
Respond_NextWithoutError(out) ==
  [handler |-> TRUE,
   status  |-> IF out.thrown THEN TOO_MANY_REQUESTS ELSE 0,
   headers |-> IF out.thrown
               THEN [h \in RateLimitHeaders \cup {"Retry-After"} |->
                       CASE h = "Retry-After"           -> out.retryAfter
                         [] h = "X-RateLimit-Limit"     -> out.limit
                         [] h = "X-RateLimit-Remaining" -> 0
                         [] h = "X-RateLimit-Reset"     -> out.reset]
               ELSE [h \in RateLimitHeaders |->
                       CASE h = "X-RateLimit-Limit"     -> out.limit
                         [] h = "X-RateLimit-Remaining" -> out.remaining
                         [] h = "X-RateLimit-Reset"     -> out.reset],
   body    |-> IF out.thrown
               THEN [limit |-> out.limit, remaining |-> out.remaining,
                     reset |-> out.reset, retryAfter |-> out.retryAfter]
               ELSE NoBody]

\* mutant: the headers of an admission are written from the limit alone
Respond_RemainingFromLimit(out) ==
  IF out.thrown
  THEN [handler |-> FALSE, status |-> TOO_MANY_REQUESTS,
        headers |-> [h \in RateLimitHeaders \cup {"Retry-After"} |->
                       CASE h = "Retry-After"           -> out.retryAfter
                         [] h = "X-RateLimit-Limit"     -> out.limit
                         [] h = "X-RateLimit-Remaining" -> 0
                         [] h = "X-RateLimit-Reset"     -> out.reset],
        body |-> [limit |-> out.limit, remaining |-> out.remaining,
                  reset |-> out.reset, retryAfter |-> out.retryAfter]]
  ELSE [handler |-> TRUE, status |-> 0,
        headers |-> [h \in RateLimitHeaders |->
                       CASE h = "X-RateLimit-Limit"     -> out.limit
                         [] h = "X-RateLimit-Remaining" -> out.limit
                         [] h = "X-RateLimit-Reset"     -> out.reset],
        body |-> NoBody]

\* the response the middleware and the error handler leave behind: `handler'
\* tells that next() was called without an error, `status' is the status the
\* error handler sent (0: none, the downstream handler answers)
Respond(out) ==
  IF out.thrown
  THEN [handler |-> FALSE, status |-> TOO_MANY_REQUESTS,
        headers |-> [h \in RateLimitHeaders \cup {"Retry-After"} |->
                       CASE h = "Retry-After"           -> out.retryAfter
                         [] h = "X-RateLimit-Limit"     -> out.limit
                         [] h = "X-RateLimit-Remaining" -> 0
                         [] h = "X-RateLimit-Reset"     -> out.reset],
        body |-> [limit |-> out.limit, remaining |-> out.remaining,
                  reset |-> out.reset, retryAfter |-> out.retryAfter]]
  ELSE [handler |-> TRUE, status |-> 0,
        headers |-> [h \in RateLimitHeaders |->
                       CASE h = "X-RateLimit-Limit"     -> out.limit
                         [] h = "X-RateLimit-Remaining" -> out.remaining
                         [] h = "X-RateLimit-Reset"     -> out.reset],
        body |-> NoBody]

NoOut == [thrown |-> FALSE, failOpen |-> FALSE, limit |-> 0, remaining |-> 0,
          reset |-> 0, retryAfter |-> 0]
NoRes == [handler |-> FALSE, status |-> 0, headers |-> <<>>, body |-> NoBody]

\* the response to a request that reached rateLimiter without req.apiKey: the
\* AuthenticationError goes to the error handler, no rate limit header is set
AuthErrorResponse == [handler |-> FALSE, status |-> UNAUTHORIZED, headers |-> <<>>,
                      body |-> NoBody]

IdleReq == [pc |-> "idle", kind |-> "none", key |-> "A", route |-> "none", now |-> 0,
            reply |-> <<>>, count |-> 0, out |-> NoOut, res |-> NoRes,
            at |-> 0, rivals |-> {}, peers |-> {}, alt |-> FALSE]

\* ------------------------------------------------------------------ Init
Init ==
  /\ clock = Epoch
  /\ redisUp = TRUE
  /\ limit \in {[p \in Principals |-> l] : l \in 1..MaxLimit}
  /\ store = [k \in Keys |-> EmptyKey]
  /\ shadow = [k \in Keys |-> EmptyKey]
  /\ req = [i \in ReqIds |-> IdleReq]
  /\ ticks = 0
  /\ outages = 0
  /\ ops = [k \in Keys |-> 0]

\* --------------------------------------------------------------- helpers
InFlight == {j \in ReqIds : req[j].pc \notin {"idle", "done"}}

\* requests are issued in the order of their numbers
NextIdle(i) == req[i].pc = "idle" /\ \A j \in ReqIds : j < i => req[j].pc # "idle"

\* the principals are interchangeable: the first request is A's
MayIssue(i, p) == NextIdle(i) /\ (i = 1 => p = "A")

\* the entries of S that a purge at time now leaves in place
Surviving(S, now, windowMs) == ZRemRangeByScore(S, now - windowMs)

\* the checks in flight with check i whose purge, like i's, would leave
\* exactly limit - 1 entries of the window S
Rivals(i, S) ==
  LET lim == limit[req[i].key]
      atBoundary(j) == Cardinality(Surviving(S, req[j].now, WindowMs)) = lim - 1
  IN IF ~atBoundary(i) THEN {}
     ELSE {j \in InFlight \ {i} : /\ req[j].kind = "check"
                                  /\ req[j].key = req[i].key
                                  /\ atBoundary(j)}

\* the checks of the same key in flight with check i
Peers(i) ==
  {j \in InFlight \ {i} : req[j].kind = "check" /\ req[j].key = req[i].key}

\* --------------------------------------------------------------- actions
\* time passes, and Redis reaps the keys whose time-to-live ran out; a request
\* in flight ends long before a window does (the client gives up reconnecting
\* after ten retries of at most three seconds)
Tick(d) ==
  /\ ticks < MaxTicks
  /\ d <= MsPerSec \/ InFlight = {}
  /\ clock' = clock + d
  /\ ticks' = ticks + 1
  /\ store' = [k \in Keys |-> Reap(store[k], clock + d)]
  /\ shadow' = [k \in Keys |-> Reap(shadow[k], clock + d)]
  /\ UNCHANGED <<redisUp, limit, req, outages, ops>>

\* the store becomes unreachable / reachable again
StoreDown ==
  /\ redisUp
  /\ outages < MaxOutages
  /\ redisUp' = FALSE
  /\ outages' = outages + 1
  /\ UNCHANGED <<clock, limit, store, shadow, req, ticks, ops>>

StoreUp ==
  /\ ~redisUp
  /\ redisUp' = TRUE
  /\ UNCHANGED <<clock, limit, store, shadow, req, ticks, outages, ops>>

\* mutant: a request without req.apiKey is counted against the first key and
\* turned away as over the limit
RejectUnauthenticated_Counted(i, route) ==
  /\ NextIdle(i)
  /\ req' = [req EXCEPT ![i] = [IdleReq EXCEPT !.pc = "done", !.kind = "anonymous",
                                               !.route = route, !.now = clock,
                                               !.res = [AuthErrorResponse EXCEPT
                                                          !.status = TOO_MANY_REQUESTS]]]
  /\ store' = [store EXCEPT ![RATE_LIMIT("A")] =
                 Expire(KeyWith(@, ZAdd(@.set, clock, i)), CeilDiv(WindowMs, MsPerSec), clock)]
  /\ UNCHANGED <<clock, redisUp, limit, shadow, ticks, outages, ops>>

\* rateLimiter reached without req.apiKey: it throws AuthenticationError
\* before checkRateLimit is called, and the error handler answers 401
RejectUnauthenticated(i, route) ==
  /\ NextIdle(i)
  /\ req' = [req EXCEPT ![i] = [IdleReq EXCEPT !.pc = "done", !.kind = "anonymous",
                                               !.route = route, !.now = clock,
                                               !.res = AuthErrorResponse]]
  /\ UNCHANGED <<clock, redisUp, limit, store, shadow, ticks, outages, ops>>

\* rateLimiter up to the await of checkRateLimit: reads the key's id and
\* limit, then checkRateLimit samples Date.now()
StartCheck(i, p, route) ==
  /\ MayIssue(i, p)
  /\ Cardinality(InFlight) < MaxInFlight
  /\ req' = [req EXCEPT ![i] = [IdleReq EXCEPT !.pc = "sampled", !.kind = "check",
                                               !.key = p, !.route = route,
                                               !.now = clock]]
  /\ UNCHANGED <<clock, redisUp, limit, store, shadow, ticks, outages, ops>>

\* mutant: the quota route counts against a limit of its own, never reached
CheckEval_QuotaUnlimited(i) ==
  /\ req[i].pc = "sampled" /\ req[i].kind = "check"
  /\ redisUp
  /\ LET r   == req[i]
         key == RATE_LIMIT(r.key)
         k   == store[key]
         lim == IF r.route = "/usage/quota" THEN limit[r.key] + MaxReq ELSE limit[r.key]
         sc  == LuaScript(k.set, r.now, r.now - WindowMs, lim, i, WindowMs)
         out == FromReply(limit[r.key], r.now, sc.reply)
         sh  == LuaScript(shadow[key].set, r.now, r.now - WindowMs, lim, i, WindowMs)
     IN /\ store' = [store EXCEPT ![key] = KeyAfterScript(k, sc, clock, WindowMs)]
        /\ shadow' = [shadow EXCEPT ![key] = KeyAfterScript(@, sh, clock, WindowMs)]
        /\ ops' = [ops EXCEPT ![key] = @ + 1]
        /\ req' = [req EXCEPT ![i] = [r EXCEPT !.pc = "done", !.reply = sc.reply,
                                               !.out = out, !.res = Respond(out),
                                               !.at = ops[key] + 1,
                                               !.rivals = Rivals(i, k.set),
                                               !.alt = sh.reply[1] = 1]]
  /\ UNCHANGED <<clock, redisUp, limit, ticks, outages>>

\* mutant: the quota route reads the window without adding its request to it
CheckEval_QuotaReadOnly(i) ==
  /\ req[i].pc = "sampled" /\ req[i].kind = "check"
  /\ redisUp
  /\ LET r   == req[i]
         key == RATE_LIMIT(r.key)
         k   == store[key]
         sc  == LuaScript(k.set, r.now, r.now - WindowMs, limit[r.key], i, WindowMs)
         out == FromReply(limit[r.key], r.now, sc.reply)
         sh  == LuaScript(shadow[key].set, r.now, r.now - WindowMs, limit[r.key], i, WindowMs)
         ro  == r.route = "/usage/quota"
     IN /\ store' = [store EXCEPT ![key] =
                       IF ro THEN KeyWith(k, ZRemRangeByScore(k.set, r.now - WindowMs))
                       ELSE KeyAfterScript(k, sc, clock, WindowMs)]
        /\ shadow' = [shadow EXCEPT ![key] =
                       IF ro THEN KeyWith(@, ZRemRangeByScore(@.set, r.now - WindowMs))
                       ELSE KeyAfterScript(@, sh, clock, WindowMs)]
        /\ ops' = [ops EXCEPT ![key] = @ + 1]
        /\ req' = [req EXCEPT ![i] = [r EXCEPT !.pc = "done", !.reply = sc.reply,
                                               !.out = out, !.res = Respond(out),
                                               !.at = ops[key] + 1,
                                               !.rivals = Rivals(i, k.set),
                                               !.alt = sh.reply[1] = 1]]
  /\ UNCHANGED <<clock, redisUp, limit, ticks, outages>>

\* redisClient.eval succeeds: the script runs atomically in the store and the
\* reply reaches checkRateLimit, which returns or throws; rateLimiter then
\* sets the headers and calls next
CheckEval(i) ==
  /\ req[i].pc = "sampled" /\ req[i].kind = "check"
  /\ redisUp
  /\ LET r   == req[i]
         key == RATE_LIMIT(r.key)
         k   == store[key]
         sc  == LuaScript(k.set, r.now, r.now - WindowMs, limit[r.key], i, WindowMs)
         out == FromReply(limit[r.key], r.now, sc.reply)
         sh  == LuaScript(shadow[key].set, r.now, r.now - WindowMs, limit[r.key], i, WindowMs)
     IN /\ store' = [store EXCEPT ![key] = KeyAfterScript(k, sc, clock, WindowMs)]
        /\ shadow' = [shadow EXCEPT ![key] = KeyAfterScript(@, sh, clock, WindowMs)]
        /\ ops' = [ops EXCEPT ![key] = @ + 1]
        /\ req' = [req EXCEPT ![i] = [r EXCEPT !.pc = "done", !.reply = sc.reply,
                                               !.out = out, !.res = Respond(out),
                                               !.at = ops[key] + 1,
                                               !.rivals = Rivals(i, k.set),
                                               !.peers = Peers(i),
                                               !.alt = sh.reply[1] = 1]]
  /\ UNCHANGED <<clock, redisUp, limit, ticks, outages>>

\* redisClient.eval rejects and the script did not run (store unreachable or
\* script error): the catch block returns the permissive info
CheckEvalError(i) ==
  /\ req[i].pc = "sampled" /\ req[i].kind = "check"
  /\ ~redisUp
  /\ LET r   == req[i]
         out == Permissive(limit[r.key], r.now, WindowMs)
     IN req' = [req EXCEPT ![i] = [r EXCEPT !.pc = "done", !.out = out,
                                            !.res = Respond(out), !.alt = TRUE]]
  /\ UNCHANGED <<clock, redisUp, limit, store, shadow, ticks, outages, ops>>

\* mutant: the failed call undoes what the script did
CheckReplyLost_Rollback(i) ==
  /\ req[i].pc = "sampled" /\ req[i].kind = "check"
  /\ redisUp
  /\ LET r   == req[i]
         key == RATE_LIMIT(r.key)
         out == Permissive(limit[r.key], r.now, WindowMs)
     IN /\ ops' = [ops EXCEPT ![key] = @ + 1]
        /\ req' = [req EXCEPT ![i] = [r EXCEPT !.pc = "done", !.out = out,
                                               !.res = Respond(out),
                                               !.at = ops[key] + 1, !.alt = TRUE]]
  /\ outages < MaxOutages
  /\ redisUp' = FALSE
  /\ outages' = outages + 1
  /\ UNCHANGED <<clock, limit, store, shadow, ticks>>

\* the script ran in the store but redisClient.eval rejects (the connection
\* broke before the reply arrived): the catch block returns the permissive info
CheckReplyLost(i) ==
  /\ req[i].pc = "sampled" /\ req[i].kind = "check"
  /\ redisUp
  /\ LET r   == req[i]
         key == RATE_LIMIT(r.key)
         k   == store[key]
         sc  == LuaScript(k.set, r.now, r.now - WindowMs, limit[r.key], i, WindowMs)
         out == Permissive(limit[r.key], r.now, WindowMs)
         sh  == LuaScript(shadow[key].set, r.now, r.now - WindowMs, limit[r.key], i, WindowMs)
     IN /\ store' = [store EXCEPT ![key] = KeyAfterScript(k, sc, clock, WindowMs)]
        /\ shadow' = [shadow EXCEPT ![key] = KeyAfterScript(@, sh, clock, WindowMs)]
        /\ ops' = [ops EXCEPT ![key] = @ + 1]
        /\ req' = [req EXCEPT ![i] = [r EXCEPT !.pc = "done", !.out = out,
                                               !.res = Respond(out),
                                               !.at = ops[key] + 1, !.alt = TRUE]]
  /\ outages < MaxOutages
  /\ redisUp' = FALSE
  /\ outages' = outages + 1
  /\ UNCHANGED <<clock, limit, ticks>>

\* getRateLimitStatus samples Date.now()
StartPeek(i, p) ==
  /\ MayIssue(i, p)
  /\ Cardinality(InFlight) < MaxInFlight
  /\ req' = [req EXCEPT ![i] = [IdleReq EXCEPT !.pc = "sampled", !.kind = "peek",
                                               !.key = p, !.now = clock]]
  /\ UNCHANGED <<clock, redisUp, limit, store, shadow, ticks, outages, ops>>

\* mutant: the status read goes through the admission path and adds an entry
PeekPurge_Consuming(i) ==
  /\ req[i].pc = "sampled" /\ req[i].kind = "peek"
  /\ redisUp
  /\ LET r   == req[i]
         key == RATE_LIMIT(r.key)
         k   == store[key]
     IN /\ store' = [store EXCEPT ![key] =
                       KeyWith(k, ZAdd(ZRemRangeByScore(k.set, r.now - WindowMs), r.now, i))]
        /\ ops' = [ops EXCEPT ![key] = @ + 1]
        /\ req' = [req EXCEPT ![i] = [r EXCEPT !.pc = "purged"]]
  /\ UNCHANGED <<clock, redisUp, limit, shadow, ticks, outages>>

\* await redisClient.zRemRangeByScore(key, '-inf', windowStart)
PeekPurge(i) ==
  /\ req[i].pc = "sampled" /\ req[i].kind = "peek"
  /\ redisUp
  /\ LET r   == req[i]
         key == RATE_LIMIT(r.key)
         k   == store[key]
     IN /\ store' = [store EXCEPT ![key] =
                       KeyWith(k, ZRemRangeByScore(k.set, r.now - WindowMs))]
        /\ ops' = [ops EXCEPT ![key] = @ + 1]
        /\ req' = [req EXCEPT ![i] = [r EXCEPT !.pc = "purged"]]
  /\ UNCHANGED <<clock, redisUp, limit, shadow, ticks, outages>>

\* await redisClient.zCard(key)
PeekCard(i) ==
  /\ req[i].pc = "purged"
  /\ redisUp
  /\ LET r   == req[i]
         key == RATE_LIMIT(r.key)
     IN /\ ops' = [ops EXCEPT ![key] = @ + 1]
        /\ req' = [req EXCEPT ![i] = [r EXCEPT !.pc = "counted",
                                               !.count = ZCard(store[key].set)]]
  /\ UNCHANGED <<clock, redisUp, limit, store, shadow, ticks, outages>>

\* await redisClient.zRange(key, 0, 0, { REV: false, BY: 'SCORE' }) and the
\* return of the status
PeekRange(i) ==
  /\ req[i].pc = "counted"
  /\ redisUp
  /\ LET r      == req[i]
         key    == RATE_LIMIT(r.key)
         oldest == ZRangeByScore(store[key].set, 0, 0)
     IN /\ ops' = [ops EXCEPT ![key] = @ + 1]
        /\ req' = [req EXCEPT ![i] =
                     [r EXCEPT !.pc = "done", !.at = ops[key] + 1,
                               !.out = StatusInfo(limit[r.key], r.now, WindowMs,
                                                  r.count, oldest)]]
  /\ UNCHANGED <<clock, redisUp, limit, store, shadow, ticks, outages>>

\* mutant: a failure after the purge reports what was read so far
PeekError_Partial(i) ==
  /\ req[i].pc \in {"sampled", "purged", "counted"} /\ req[i].kind = "peek"
  /\ ~redisUp
  /\ LET r == req[i]
     IN req' = [req EXCEPT ![i] =
                  [r EXCEPT !.pc = "done",
                            !.out = [Permissive(limit[r.key], r.now, WindowMs)
                                       EXCEPT !.remaining = Max(0, limit[r.key] - r.count)]]]
  /\ UNCHANGED <<clock, redisUp, limit, store, shadow, ticks, outages, ops>>

\* one of the three commands rejects: the catch block returns the permissive
\* status
PeekError(i) ==
  /\ req[i].pc \in {"sampled", "purged", "counted"} /\ req[i].kind = "peek"
  /\ ~redisUp
  /\ LET r == req[i]
     IN req' = [req EXCEPT ![i] = [r EXCEPT !.pc = "done",
                                        !.out = Permissive(limit[r.key], r.now, WindowMs)]]
  /\ UNCHANGED <<clock, redisUp, limit, store, shadow, ticks, outages, ops>>

Next ==
  \/ \E d \in Steps : Tick(d)
  \/ StoreDown
  \/ StoreUp
  \/ \E i \in ReqIds, route \in OneRoute : RejectUnauthenticated(i, route)
  \/ \E i \in ReqIds, p \in Principals, route \in OneRoute : StartCheck(i, p, route)
  \/ \E i \in ReqIds : CheckEval(i)
  \/ \E i \in ReqIds : CheckEvalError(i)
  \/ \E i \in ReqIds : CheckReplyLost(i)
  \/ \E i \in ReqIds, p \in Principals : StartPeek(i, p)
  \/ \E i \in ReqIds : PeekPurge(i)
  \/ \E i \in ReqIds : PeekCard(i)
  \/ \E i \in ReqIds : PeekRange(i)
  \/ \E i \in ReqIds : PeekError(i)

Spec == Init /\ [][Next]_vars

\* the same operations with one request at a time: a request starts, and time
\* passes, only when no other request is in flight
NextSeq ==
  \/ InFlight = {} /\ \E d \in Steps : Tick(d)
  \/ StoreDown
  \/ StoreUp
  \/ \E i \in ReqIds, route \in Endpoints : RejectUnauthenticated(i, route)
  \/ InFlight = {} /\ \E i \in ReqIds, p \in Principals, route \in Endpoints :
                         StartCheck(i, p, route)
  \/ \E i \in ReqIds : CheckEval(i)
  \/ \E i \in ReqIds : CheckEvalError(i)
  \/ \E i \in ReqIds : CheckReplyLost(i)
  \/ InFlight = {} /\ \E i \in ReqIds, p \in Principals : StartPeek(i, p)
  \/ \E i \in ReqIds : PeekPurge(i)
  \/ \E i \in ReqIds : PeekCard(i)
  \/ \E i \in ReqIds : PeekRange(i)
  \/ \E i \in ReqIds : PeekError(i)

SpecSeq == Init /\ [][NextSeq]_vars

\* api_keys.rate_limit_per_hour is an INTEGER NOT NULL column without a CHECK
\* and the limiter takes whatever the row holds: the same operations for keys
\* whose row holds any limit from 0 on
InitAnyLimit ==
  /\ clock = Epoch
  /\ redisUp = TRUE
  /\ limit \in {[p \in Principals |-> l] : l \in 0..MaxLimit}
  /\ store = [k \in Keys |-> EmptyKey]
  /\ shadow = [k \in Keys |-> EmptyKey]
  /\ req = [i \in ReqIds |-> IdleReq]
  /\ ticks = 0
  /\ outages = 0
  /\ ops = [k \in Keys |-> 0]

SpecAnyLimit == InitAnyLimit /\ [][NextSeq]_vars

\* ------------------------------------------------------- reading the state
Done(i)     == req[i].pc = "done"
IsCheck(i)  == req[i].kind = "check"
IsPeek(i)   == req[i].kind = "peek"
KeyOf(i)    == RATE_LIMIT(req[i].key)
LimitOf(i)  == limit[req[i].key]
\* the outcome came from the store's reply, not from a catch block
Genuine(i)  == Done(i) /\ ~req[i].out.failOpen
Admitted(i) == Done(i) /\ IsCheck(i) /\ ~req[i].out.thrown
Rejected(i) == Done(i) /\ IsCheck(i) /\ req[i].out.thrown
\* this step runs the script of check i in the store
ScriptStep(i) ==
  /\ req[i].pc = "sampled" /\ IsCheck(i) /\ req'[i].pc = "done"
  /\ ops'[KeyOf(i)] = ops[KeyOf(i)] + 1
\* this step runs the script of check i and delivers its reply
ReplyStep(i) == ScriptStep(i) /\ ~req'[i].out.failOpen
\* the entries of i's key that i's purge leaves, before the step
Window(i) == Surviving(store[KeyOf(i)].set, req[i].now, WindowMs)

\* ------------------------------------------------------------------- C1
\* C1: two concurrent checks of one principal that are both in flight while
\* the window holds exactly limit - 1 entries that the purge of either leaves
\* in place, and whose scripts the store runs one after the other, are never
\* both Admitted.
C1_BoundaryPairNotBothAdmitted ==
  \A i, j \in ReqIds :
    ( /\ i # j /\ Genuine(i) /\ Genuine(j) /\ IsCheck(i) /\ IsCheck(j)
      /\ j \in req[i].rivals
      /\ req[j].at = req[i].at + 1 )
    => ~(Admitted(i) /\ Admitted(j))

\* a boundary pair: the first in store order is Admitted with nothing
\* remaining, the second is Rejected, with a limit above 1
C1_Witness ==
  \E i, j \in ReqIds :
    /\ i # j /\ Genuine(i) /\ Genuine(j) /\ j \in req[i].rivals
    /\ req[j].at = req[i].at + 1
    /\ LimitOf(i) >= 2
    /\ Admitted(i) /\ req[i].out.remaining = 0 /\ Rejected(j)

\* ------------------------------------------------------------------- C2
\* the checks of principal p Admitted with a timestamp in [t, t + WindowMs)
AdmittedIn(p, t, ok(_)) ==
  {i \in ReqIds : ok(i) /\ req[i].key = p /\ t <= req[i].now /\ req[i].now < t + WindowMs}

GenuinelyAdmitted(i) == Admitted(i) /\ Genuine(i)

C3_AdmitStep ==
  [][\A i \in ReqIds :
       (ReplyStep(i) /\ Cardinality(Window(i)) < LimitOf(i)) =>
         LET count == Cardinality(Window(i))
             o     == req'[i].out
         IN /\ ~o.thrown
            /\ Entry(i, req[i].now) \notin Window(i)
            /\ store'[KeyOf(i)].set = Window(i) \cup {Entry(i, req[i].now)}
            /\ Cardinality(store'[KeyOf(i)].set) = count + 1
            /\ o.limit = LimitOf(i)
            /\ o.remaining = LimitOf(i) - (count + 1)
            /\ o.reset = CeilDiv(req[i].now + WindowMs, MsPerSec)]_vars

\* a check was Admitted on top of an entry that survived its purge
C3_Witness ==
  \E i \in ReqIds :
    /\ GenuinelyAdmitted(i) /\ req[i].reply[2] >= 2
    /\ req[i].out.remaining = LimitOf(i) - req[i].reply[2]
    /\ Entry(i, req[i].now) \in store[KeyOf(i)].set

\* ------------------------------------------------------------------- C4
\* C4: a check whose reply arrives and whose purge leaves count >= limit
\* entries is Rejected, whatever the limit: the answer is HTTP 429, its body
\* carries rate_limit.limit = limit and rate_limit.remaining = 0, and it has a
\* Retry-After header; the downstream handler does not run.
C4_RejectStep ==
  [][\A i \in ReqIds :
       (ReplyStep(i) /\ Cardinality(Window(i)) >= LimitOf(i)) =>
         LET o == req'[i].out
             r == req'[i].res
         IN /\ o.thrown
            /\ r.status = 429
            /\ r.body.limit = LimitOf(i)
            /\ r.body.remaining = 0
            /\ "Retry-After" \in DOMAIN r.headers
            /\ ~r.handler]_vars

\* a check was Rejected with a 429 for a key at its limit
C4_Witness ==
  \E i \in ReqIds :
    /\ Rejected(i) /\ req[i].reply[2] >= LimitOf(i)
    /\ req[i].res.status = 429 /\ "Retry-After" \in DOMAIN req[i].res.headers

\* ------------------------------------------------------------------- C5
\* C5: a Rejected check reports reset = ceil((s + WindowMs) / 1000) and
\* retryAfter = ceil((s + WindowMs - now) / 1000) for the score s of the
\* oldest entry its purge left; with WindowMs = 3,600,000 a check 1000 ms
\* after s reports 3599 and a check at s reports WindowMs / 1000.
C5_RejectTimes ==
  [][\A i \in ReqIds :
       (ReplyStep(i) /\ req'[i].out.thrown) =>
         /\ Window(i) # {}
         /\ LET s == MinScore(Window(i))
                o == req'[i].out
            IN /\ o.reset = CeilDiv(s + WindowMs, MsPerSec)
               /\ o.retryAfter = CeilDiv(s + WindowMs - req[i].now, MsPerSec)
               /\ (WindowMs = 3600000 /\ req[i].now = s + 1000) => o.retryAfter = 3599
               /\ req[i].now = s => o.retryAfter = WindowMs \div MsPerSec]_vars

\* after limit entries at one time t, a check at t and a check at t + 1000
\* were Rejected, with retryAfter 3600 and 3599
C5_Witness ==
  \E i, j, k \in ReqIds :
    /\ GenuinelyAdmitted(i) /\ Rejected(j) /\ Rejected(k)
    /\ req[j].key = req[i].key /\ req[k].key = req[i].key
    /\ req[j].now = req[i].now /\ req[k].now = req[i].now + 1000
    /\ req[j].out.retryAfter = 3600 /\ req[k].out.retryAfter = 3599

\* ------------------------------------------------------------------- C6
\* this step ends check i while the store is unreachable, or while the
\* connection breaks under the reply
FailStep(i) ==
  /\ req[i].pc = "sampled" /\ IsCheck(i) /\ req'[i].pc = "done"
  /\ ~redisUp \/ ~redisUp'

\* C6: when the store is unreachable or the script's call fails, the check
\* returns Admitted with remaining = limit and
\* reset = ceil((now + WindowMs) / 1000), whatever the window holds; the
\* request goes on to its handler and gets no 429 and no 5xx of the limiter.
C6_FailOpen ==
  [][\A i \in ReqIds :
       FailStep(i) =>
         LET o == req'[i].out
             r == req'[i].res
         IN /\ ~o.thrown
            /\ o.limit = LimitOf(i)
            /\ o.remaining = LimitOf(i)
            /\ o.reset = CeilDiv(req[i].now + WindowMs, MsPerSec)
            /\ r.handler
            /\ r.status # 429 /\ r.status < 500
            /\ r.headers["X-RateLimit-Remaining"] = LimitOf(i)]_vars

\* a check failed open although its key's window held limit entries that its
\* purge would have left
C6_Witness ==
  \E i \in ReqIds :
    /\ Admitted(i) /\ req[i].out.failOpen /\ req[i].res.handler
    /\ Cardinality(Window(i) \ {Entry(i, req[i].now)}) >= LimitOf(i)

\* ------------------------------------------------------------------- C7
\* this step is a step of request i (it moves i on)
StepOf(i) == req'[i] # req[i]

\* C7: a check or peek of principal A leaves the window of every other
\* principal B unchanged, and B's decision does not depend on what A did: a
\* check of B that is the first command the store runs on B's key is
\* Admitted with remaining = limit - 1 whether or not A's requests ran before
\* it.
C7_Independence ==
  /\ [][\A i \in ReqIds : \A q \in Principals :
          (StepOf(i) /\ req'[i].key # q) =>
            /\ store'[RATE_LIMIT(q)] = store[RATE_LIMIT(q)]
            /\ ops'[RATE_LIMIT(q)] = ops[RATE_LIMIT(q)]]_vars
  /\ [](\A i \in ReqIds :
          (Genuine(i) /\ IsCheck(i) /\ req[i].at = 1)
          => Admitted(i) /\ req[i].out.remaining = LimitOf(i) - 1)

\* A used up its limit and was Rejected, and B's check after that was
\* Admitted with remaining = limit - 1
C7_Witness ==
  \E i, j, k \in ReqIds :
    /\ i < j /\ j < k
    /\ req[i].key = "A" /\ req[j].key = "A" /\ req[k].key = "B"
    /\ GenuinelyAdmitted(i) /\ req[i].out.remaining = 0
    /\ Rejected(j)
    /\ GenuinelyAdmitted(k) /\ req[k].out.remaining = LimitOf(k) - 1
    /\ req[k].at = 1 /\ req[k].now >= req[j].now

\* ------------------------------------------------------------------- C8
\* the window of check i holds exactly limit entries, all with score t
FullAt(i, t) ==
  /\ Cardinality(store[KeyOf(i)].set) = LimitOf(i)
  /\ \A e \in store[KeyOf(i)].set : e.score = t

\* C8: after limit admissions at time t0, every check at a time t with
\* t0 <= t < t0 + WindowMs is Rejected, and a check at t0 + WindowMs + 1 is
\* Admitted.
C8_SlidingWindow ==
  [][\A i \in ReqIds : \A e \in store[KeyOf(i)].set :
       (ReplyStep(i) /\ FullAt(i, e.score)) =>
         LET t0 == e.score
             t  == req[i].now
         IN /\ (t0 <= t /\ t < t0 + WindowMs) => req'[i].out.thrown
            /\ t = t0 + WindowMs + 1 => ~req'[i].out.thrown]_vars

\* limit checks Admitted at t0, a check Rejected at t0 + 1 and a check
\* Admitted at t0 + WindowMs + 1
C8_Witness ==
  \E i, j, k \in ReqIds :
    /\ req[j].key = req[i].key /\ req[k].key = req[i].key
    /\ GenuinelyAdmitted(i) /\ req[i].out.remaining = 0
    /\ Rejected(j) /\ req[j].now = req[i].now + 1
    /\ GenuinelyAdmitted(k) /\ req[k].now = req[i].now + WindowMs + 1

\* ------------------------------------------------------------------- C9
\* this step runs the purge of request i (in the check's script, or as the
\* peek's first command)
PurgeStep(i) ==
  /\ req[i].pc = "sampled" /\ req'[i].pc \in {"purged", "done"}
  /\ ops'[KeyOf(i)] = ops[KeyOf(i)] + 1

\* C9 as claimed: the purge of a check or peek at time now removes exactly
\* the entries with score < now - WindowMs; an entry with score
\* now - WindowMs is kept.
C9_PurgeStrict ==
  [][\A i \in ReqIds :
       PurgeStep(i) =>
         \A e \in store[KeyOf(i)].set :
           (e \notin store'[KeyOf(i)].set) <=> (e.score < req[i].now - WindowMs)]_vars

\* C9 amended: the purge of a check or peek at time now removes exactly the
\* entries with score <= now - WindowMs; an entry with score now - WindowMs
\* is removed and no longer counts toward the limit.
C9_PurgeInclusive ==
  [][\A i \in ReqIds :
       PurgeStep(i) =>
         /\ \A e \in store[KeyOf(i)].set :
              (e \notin store'[KeyOf(i)].set) <=> (e.score <= req[i].now - WindowMs)
         /\ IsCheck(i) /\ ~req'[i].out.failOpen =>
              req'[i].reply[2] - req'[i].reply[1] =
                Cardinality({e \in store[KeyOf(i)].set : e.score > req[i].now - WindowMs})]_vars

\* a key of limit 1 holds an entry of score t and a check at t + WindowMs was
\* Admitted: the entry at the boundary was purged and did not count
C9_Witness ==
  \E i, j \in ReqIds :
    /\ req[j].key = req[i].key /\ LimitOf(i) = 1
    /\ GenuinelyAdmitted(i) /\ GenuinelyAdmitted(j)
    /\ req[j].now = req[i].now + WindowMs
    /\ Entry(i, req[i].now) \notin store[KeyOf(i)].set

\* ------------------------------------------------------------------ C10
\* this step runs a store command of peek i
PeekStep(i) == IsPeek(i) /\ StepOf(i) /\ req[i].pc # "idle"

\* request j is a peek that directly follows the peek i, for the same key
\* and with the same now, and both got all their replies
PeekTwice(i, j) ==
  /\ j = i + 1 /\ IsPeek(i) /\ IsPeek(j) /\ Genuine(i)
  /\ req[j].key = req[i].key /\ req[j].now = req[i].now

\* C10: a peek never inserts an entry: the only change it makes to the store
\* is its purge; peeks in immediate succession with the same now return the
\* same limit, remaining and reset, and the purge of the second removes
\* nothing.
C10_PeekIdempotent ==
  /\ [][\A i \in ReqIds :
          PeekStep(i) =>
            /\ store'[KeyOf(i)].set =
                 IF PurgeStep(i) THEN Window(i) ELSE store[KeyOf(i)].set
            /\ \A j \in ReqIds : (PeekTwice(j, i) /\ PurgeStep(i)) => store' = store]_vars
  /\ [](\A i, j \in ReqIds :
          (PeekTwice(i, j) /\ Genuine(j)) =>
            /\ req[j].out.limit = req[i].out.limit
            /\ req[j].out.remaining = req[i].out.remaining
            /\ req[j].out.reset = req[i].out.reset)

\* two peeks in immediate succession with the same now reported the same
\* remaining, below the limit, for a window that still holds the entries
C10_Witness ==
  \E i, j \in ReqIds :
    /\ PeekTwice(i, j) /\ Genuine(j)
    /\ req[i].out.remaining < LimitOf(i)
    /\ req[j].out.remaining = req[i].out.remaining
    /\ Cardinality(store[KeyOf(i)].set) = LimitOf(i) - req[i].out.remaining

\* ------------------------------------------------------------------ C11
\* C11: peeks never affect admission: in every interleaving of peeks with
\* checks of the same principal, also when a peek's three store commands
\* interleave with a check's script, every check is Admitted exactly when it
\* is Admitted in the same run with the peeks removed.
C11_PeekNeverAffectsAdmission ==
  \A i \in ReqIds : (Done(i) /\ IsCheck(i)) => (Admitted(i) <=> req[i].alt)

\* ------------------------------------------------------------------ C12
\* this step is the last command of peek i, and its reply arrives
PeekReturn(i) == req[i].pc = "counted" /\ req'[i].pc = "done" /\ ~req'[i].out.failOpen

\* C12: a peek reports the reset of the reject branch: with at least one
\* entry left by the purge, reset = ceil((score of the oldest entry left +
\* WindowMs) / 1000); only for an empty window is it
\* ceil((now + WindowMs) / 1000).
C12_PeekResetFromOldest ==
  [][\A i \in ReqIds :
       PeekReturn(i) =>
         LET S == store[KeyOf(i)].set
         IN req'[i].out.reset =
              IF S # {} THEN CeilDiv(MinScore(S) + WindowMs, MsPerSec)
              ELSE CeilDiv(req[i].now + WindowMs, MsPerSec)]_vars

\* ------------------------------------------------------------------ C13
\* C13 as claimed: every reset returned by a check while the window holds
\* at least one entry, Admitted or Rejected, is
\* ceil((score of the oldest entry in the window + WindowMs) / 1000).
C13_ResetFromOldest ==
  [][\A i \in ReqIds :
       (ReplyStep(i) /\ store'[KeyOf(i)].set # {}) =>
         req'[i].out.reset =
           CeilDiv(MinScore(store'[KeyOf(i)].set) + WindowMs, MsPerSec)]_vars

\* C13 amended: a Rejected check returns
\* reset = ceil((score of the oldest entry in the window + WindowMs) / 1000);
\* an Admitted check returns reset = ceil((now + WindowMs) / 1000), the
\* instant its own entry leaves the window, which is the former only when its
\* own entry is the oldest of the window.
C13_ResetByDecision ==
  [][\A i \in ReqIds :
       ReplyStep(i) =>
         LET S == store'[KeyOf(i)].set
             o == req'[i].out
         IN /\ S # {}
            /\ o.thrown => o.reset = CeilDiv(MinScore(S) + WindowMs, MsPerSec)
            /\ ~o.thrown => o.reset = CeilDiv(req[i].now + WindowMs, MsPerSec)
            /\ (~o.thrown /\ MinScore(S) = req[i].now) =>
                 o.reset = CeilDiv(MinScore(S) + WindowMs, MsPerSec)]_vars

\* with the entry of check i in the window, the later check j was Admitted
\* with a reset derived from its own now, and check k was Rejected with the
\* reset derived from i's entry, a different second
C13_Witness ==
  \E i, j, k \in ReqIds :
    /\ req[j].key = req[i].key /\ req[k].key = req[i].key
    /\ GenuinelyAdmitted(i) /\ GenuinelyAdmitted(j) /\ Rejected(k)
    /\ req[i].now < req[j].now
    /\ store[KeyOf(i)].set = {Entry(i, req[i].now), Entry(j, req[j].now)}
    /\ req[j].out.reset = CeilDiv(req[j].now + WindowMs, MsPerSec)
    /\ req[k].out.reset = CeilDiv(req[i].now + WindowMs, MsPerSec)
    /\ req[j].out.reset # req[k].out.reset

NextOnOtherRoute(i, j) ==
  /\ j = i + 1 /\ IsCheck(i) /\ IsCheck(j)
  /\ req[j].key = req[i].key /\ req[j].route # req[i].route
  /\ req[j].now = req[i].now

QuotaStep(i) == ScriptStep(i) /\ req[i].route = "/usage/quota"

PeekFailStep(i) ==
  /\ IsPeek(i) /\ req[i].pc \in {"sampled", "purged", "counted"}
  /\ req'[i].pc = "done" /\ ~redisUp

\* C17: a peek whose store command fails does not throw: whichever of its
\* three commands failed, it returns remaining = limit and
\* reset = ceil((now + WindowMs) / 1000).
C17_PeekFailOpen ==
  [][\A i \in ReqIds :
       PeekFailStep(i) =>
         LET o == req'[i].out
         IN /\ ~o.thrown
            /\ o.limit = LimitOf(i)
            /\ o.remaining = LimitOf(i)
            /\ o.reset = CeilDiv(req[i].now + WindowMs, MsPerSec)]_vars

\* a peek had purged and counted a window with entries when its last command
\* failed, and it reports the whole limit as remaining
C17_Witness ==
  \E i \in ReqIds :
    /\ IsPeek(i) /\ Done(i) /\ req[i].out.failOpen
    /\ req[i].count >= 1 /\ store[KeyOf(i)].set # {}
    /\ ~req[i].out.thrown /\ req[i].out.remaining = LimitOf(i)

\* ------------------------------------------------------------------ C18
\* the downstream handler of request i runs
HandlerRuns(i) == req[i].res.handler

\* C18: the check's decision is the single gate: the downstream handler of a
\* request starts to run only on the step on which its check returns
\* Admitted, by the script's reply or by the fail-open catch block; it runs
\* for no request that is still in flight, and never for a request whose
\* check was Rejected.
C18_SingleGate ==
  /\ [](\A i \in ReqIds :
          /\ HandlerRuns(i) => Admitted(i)
          /\ Rejected(i) => ~HandlerRuns(i))
  /\ [][\A i \in ReqIds :
          /\ (~HandlerRuns(i) /\ req'[i].res.handler) =>
               /\ req[i].pc = "sampled" /\ IsCheck(i) /\ req'[i].pc = "done"
               /\ ~req'[i].out.thrown
          /\ Rejected(i) => ~req'[i].res.handler]_vars

\* the handler ran for a check Admitted on the script's reply and for one
\* Admitted by the catch block, and did not run for a Rejected one
C18_Witness ==
  \E i, j, k \in ReqIds :
    /\ GenuinelyAdmitted(i) /\ HandlerRuns(i)
    /\ Admitted(j) /\ req[j].out.failOpen /\ HandlerRuns(j)
    /\ Rejected(k) /\ ~HandlerRuns(k) /\ req[k].res.status = 429

\* ------------------------------------------------------------------ C19
IsAnonymous(i) == req[i].kind = "anonymous"

\* this step is a request reaching the limiter without a resolved principal
AnonymousStep(i) == req[i].pc = "idle" /\ req'[i].kind = "anonymous"

\* C19: a request that reaches the limiter without a resolved principal is
\* turned away as an authentication error before checkRateLimit is called:
\* the store runs no command and is left as it is, no entry is ever created
\* for the request, its handler does not run, and the answer is 401, not 429,
\* without rate limit headers.
C19_InvalidPrincipal ==
  /\ [][\A i \in ReqIds :
          AnonymousStep(i) =>
            /\ store' = store /\ ops' = ops
            /\ req'[i].pc = "done"
            /\ req'[i].res.status = UNAUTHORIZED
            /\ req'[i].res.status # TOO_MANY_REQUESTS
            /\ ~req'[i].res.handler
            /\ DOMAIN req'[i].res.headers = {}]_vars
  /\ [](\A i \in ReqIds : \A k \in Keys : \A e \in store[k].set :
          IsAnonymous(i) => e.member # i)

\* an unauthenticated request was answered 401 at a time when a key's window
\* was full, and the next check of that key found the window as it was
C19_Witness ==
  \E i, j, k \in ReqIds :
    /\ i < j /\ j < k
    /\ GenuinelyAdmitted(i) /\ req[i].out.remaining = 0
    /\ IsAnonymous(j) /\ Done(j) /\ req[j].res.status = 401
    /\ req[k].key = req[i].key /\ Rejected(k)
    /\ store[KeyOf(i)].set = {Entry(i, req[i].now)}

\* ------------------------------------------------------------------ C20
\* C20: a Rejected check changes the store by its purge alone: it inserts no
\* entry and does not refresh the key's expiration, so that after it the key
\* holds exactly the entries its purge left and the time-to-live it had, and
\* no other key changes.
C20_RejectFrame ==
  [][\A i \in ReqIds :
       (ReplyStep(i) /\ req'[i].out.thrown) =>
         /\ store'[KeyOf(i)].set = Window(i)
         /\ \A e \in store'[KeyOf(i)].set : e.member # i
         /\ store'[KeyOf(i)].expireAt = store[KeyOf(i)].expireAt
         /\ \A k \in Keys \ {KeyOf(i)} : store'[k] = store[k]]_vars

\* a check was Rejected after the entry that fills the window was added, and
\* the key still has the expiration set with that entry, earlier than any the
\* Rejected check could have set
C20_Witness ==
  \E i, k \in ReqIds :
    /\ req[k].key = req[i].key
    /\ GenuinelyAdmitted(i) /\ Rejected(k)
    /\ req[i].now < req[k].now
    /\ store[KeyOf(i)].set = {Entry(i, req[i].now)}
    /\ store[KeyOf(i)].expireAt # NoExpire
    /\ store[KeyOf(i)].expireAt < req[k].now + WindowMs

\* ------------------------------------------------------------------ C21
\* the script of check i committed its entry but the caller saw a store
\* error instead of the reply
LostAfterCommit(i) ==
  /\ Done(i) /\ IsCheck(i) /\ req[i].out.failOpen /\ req[i].at > 0

\* C21: there is no compensating rollback: when the script has inserted the
\* entry of a check whose caller then sees a store error instead of the
\* reply, the entry is in the principal's window, it stays there until a
\* purge or the key's expiration removes it as aged out, and every later
\* check whose window it lies in counts it.
C21_NoRollback ==
  [][\A i \in ReqIds :
       LET e == Entry(i, req[i].now)
       IN /\ (FailStep(i) /\ ScriptStep(i) /\ Cardinality(Window(i)) < LimitOf(i))
               => Entry(i, req[i].now) \in store'[KeyOf(i)].set
          /\ (LostAfterCommit(i) /\ e \in store[KeyOf(i)].set) =>
               /\ e \in store'[KeyOf(i)].set
                    \/ e.score <= clock' - WindowMs
                    \/ \E j \in ReqIds : PurgeStep(j) /\ e.score <= req[j].now - WindowMs
               /\ \A j \in ReqIds :
                    (ReplyStep(j) /\ KeyOf(j) = KeyOf(i) /\ e.score > req[j].now - WindowMs)
                    => /\ e \in Window(j)
                       /\ req'[j].reply[2] - req'[j].reply[1] = Cardinality(Window(j))
                       /\ req'[j].reply[2] >= 1 + req'[j].reply[1]]_vars

\* the caller of a check saw a store error and was let through by the catch
\* block, the script's entry is in the window all the same, and a later
\* check of the key was Rejected on account of it
C21_Witness ==
  \E i, j \in ReqIds :
    /\ LostAfterCommit(i) /\ Admitted(i) /\ LimitOf(i) = 1
    /\ store[KeyOf(i)].set = {Entry(i, req[i].now)}
    /\ req[j].key = req[i].key /\ Rejected(j) /\ req[j].at > req[i].at
    /\ req[j].reply[2] = 1

\* ------------------------------------------------------------------ C22
\* C22: every response to a request that went through checkRateLimit carries
\* X-RateLimit-Limit = the key's limit and an X-RateLimit-Remaining between
\* 0 and the limit: on admission it is the decision's remaining, on rejection
\* it is 0 and Retry-After is the decision's retryAfter.
C22_Headers ==
  \A i \in ReqIds :
    (Done(i) /\ IsCheck(i)) =>
      LET h == req[i].res.headers
          o == req[i].out
      IN /\ RateLimitHeaders \subseteq DOMAIN h
         /\ h["X-RateLimit-Limit"] = LimitOf(i)
         /\ 0 <= h["X-RateLimit-Remaining"] /\ h["X-RateLimit-Remaining"] <= LimitOf(i)
         /\ Admitted(i) => /\ h["X-RateLimit-Remaining"] = o.remaining
                            /\ "Retry-After" \notin DOMAIN h
         /\ Rejected(i) => /\ h["X-RateLimit-Remaining"] = 0
                            /\ "Retry-After" \in DOMAIN h
                            /\ h["Retry-After"] = o.retryAfter
                            /\ h["X-RateLimit-Reset"] = o.reset

\* with a limit of 2, one response carries Remaining 1, the next Remaining 0
\* and the third, a 429, Remaining 0 with the Retry-After of its decision
C22_Witness ==
  \E i, j, k \in ReqIds :
    /\ LimitOf(i) = 2 /\ req[j].key = req[i].key /\ req[k].key = req[i].key
    /\ GenuinelyAdmitted(i) /\ req[i].res.headers["X-RateLimit-Remaining"] = 1
    /\ GenuinelyAdmitted(j) /\ req[j].res.headers["X-RateLimit-Remaining"] = 0
    /\ Rejected(k) /\ req[k].res.headers["X-RateLimit-Remaining"] = 0
    /\ req[k].res.headers["Retry-After"] = req[k].out.retryAfter
    /\ req[k].out.retryAfter >= 1

\* ------------------------------------------------------------------ C23
\* C23: with a fixed limit and entries created by checks only, the stored
\* window of each principal holds at most limit entries, those already
\* expired and not yet purged included, and no check or peek whose replies
\* arrived saw a count after the purge above the limit.
C23_AtMostLimitStored ==
  /\ \A p \in Principals : Cardinality(store[RATE_LIMIT(p)].set) <= limit[p]
  /\ \A i \in ReqIds :
       /\ (Genuine(i) /\ IsCheck(i)) => req[i].reply[2] <= LimitOf(i)
       /\ IsPeek(i) => req[i].count <= LimitOf(i)

\* a window holds limit entries, one of them expired and not yet purged, and
\* a check saw the count at the limit
C23_Witness ==
  \E i \in ReqIds :
    /\ Rejected(i) /\ req[i].reply[2] = LimitOf(i)
    /\ Cardinality(store[KeyOf(i)].set) = LimitOf(i)
    /\ \E e \in store[KeyOf(i)].set : e.score <= clock - WindowMs

\* ------------------------------------------------------------------ C24
\* checks i and j of one key ran concurrently, i first: j was in flight when
\* i's script ran, i's script is the last command the store ran on the key,
\* and nothing has expired since
RanJustBefore(i, j) ==
  /\ i # j /\ Genuine(i) /\ IsCheck(i) /\ j \in req[i].peers
  /\ req[i].at = ops[KeyOf(j)]
  /\ Cardinality(store[KeyOf(j)].set) = req[i].reply[2]
  /\ Window(j) = store[KeyOf(j)].set
  /\ Surviving(store[KeyOf(j)].set, req[i].now, WindowMs) = store[KeyOf(j)].set

Min(a, b) == IF a <= b THEN a ELSE b

\* 1 for TRUE, 0 for FALSE
Count(b) == IF b THEN 1 ELSE 0

\* C24: when two checks of one principal run concurrently against a window
\* of c entries (c <= limit, nothing expiring meanwhile, store healthy),
\* exactly min(2, limit - c) of them are Admitted: the one whose script the
\* store runs first goes first, and the other is Rejected when the first
\* takes the last free place or finds none.
C24_ConcurrentAdmissions ==
  [][\A i, j \in ReqIds :
       (ReplyStep(j) /\ RanJustBefore(i, j)) =>
         LET c == req[i].reply[2] - req[i].reply[1]
             n == Count(Admitted(i)) + Count(~req'[j].out.thrown)
         IN /\ c <= LimitOf(i)
            /\ n = Min(2, LimitOf(i) - c)
            /\ ~req'[j].out.thrown => Admitted(i)]_vars

\* two concurrent checks found one free place: the first in store order was
\* Admitted and the second Rejected; the limit is 2 and c = 1
C24_Witness ==
  \E i, j \in ReqIds :
    /\ i # j /\ j \in req[i].peers /\ req[j].at = req[i].at + 1
    /\ LimitOf(i) = 2 /\ req[i].reply[2] - req[i].reply[1] = 1
    /\ GenuinelyAdmitted(i) /\ Rejected(j)

\* ------------------------------------------------------------------ C25
\* the checks of principal p Admitted on the script's reply whose recorded
\* timestamp lies in [t, t + WindowMs)
StampedIn(p, t) ==
  {j \in ReqIds : /\ GenuinelyAdmitted(j) /\ req[j].key = p
                  /\ t <= req[j].now /\ req[j].now - t < WindowMs}

\* C25: with a healthy store and concurrent checks and peeks of one
\* principal, each with a now read before its script runs, so that scripts
\* may run in another order than their timestamps: in every interval of
\* length WindowMs at most limit requests with a recorded timestamp in the
\* interval were Admitted.
C25_BoundWithStaleNow ==
  \A i \in ReqIds :
    (GenuinelyAdmitted(i) /\ outages = 0) =>
      Cardinality(StampedIn(req[i].key, req[i].now)) <= LimitOf(i)

\* ------------------------------------------------------------------ C26
\* the entries of score t in the window of principal p
EntriesAt(p, t) == {e \in store[RATE_LIMIT(p)].set : e.score = t}

\* C26: each admission adds exactly one new member to the window, also when
\* an entry with the same millisecond score is there already: the existing
\* entries stay, the count rises by one, and so does the number of entries
\* of that millisecond; every stored entry is the entry of one admitted
\* check, under that check's own member and timestamp.
C26_OneMemberPerAdmission ==
  /\ [][\A i \in ReqIds :
          (ReplyStep(i) /\ ~req'[i].out.thrown) =>
            /\ Window(i) \subseteq store'[KeyOf(i)].set
            /\ Cardinality(store'[KeyOf(i)].set) = Cardinality(Window(i)) + 1
            /\ Cardinality(EntriesAt(req[i].key, req[i].now)') =
                 Cardinality(EntriesAt(req[i].key, req[i].now)) + 1]_vars
  /\ [](\A p \in Principals : \A e \in store[RATE_LIMIT(p)].set :
          /\ req[e.member].now = e.score /\ req[e.member].key = p
          /\ outages = 0 => GenuinelyAdmitted(e.member))

\* two checks with the same now were Admitted and the window holds two
\* entries of that score
C26_Witness ==
  \E i, j \in ReqIds :
    /\ i # j /\ req[j].key = req[i].key /\ req[j].now = req[i].now
    /\ GenuinelyAdmitted(i) /\ GenuinelyAdmitted(j)
    /\ EntriesAt(req[i].key, req[i].now) = {Entry(i, req[i].now), Entry(j, req[i].now)}

\* ------------------------------------------------------------------ C27
\* check j of k's key was Rejected before this step, its Retry-After has passed
\* at k's timestamp, and no check of the key was admitted after j
RetryDue(j, k) ==
  /\ j # k /\ req[j].key = req[k].key /\ Rejected(j)
  /\ req[k].now >= req[j].now + MsPerSec * req[j].out.retryAfter
  /\ \A i \in ReqIds \ {j, k} :
       (Admitted(i) /\ req[i].key = req[j].key) => req[i].at < req[j].at

\* C27: with a healthy store and a limit of at least 1, a check whose
\* timestamp is no earlier than the timestamp of an earlier Rejected check of
\* the same principal plus 1000 times its retryAfter is Admitted, provided
\* no other check of the principal was admitted after the rejection.
C27_AdmittedAfterRetryAfter ==
  [][\A k \in ReqIds :
       (ScriptStep(k) /\ outages = 0 /\ outages' = 0 /\ LimitOf(k) >= 1
          /\ \E j \in ReqIds : RetryDue(j, k))
         => /\ ~req'[k].out.thrown /\ ~req'[k].out.failOpen
            /\ Entry(k, req[k].now) \in store'[KeyOf(k)].set]_vars

\* a check Rejected while the window was full, and a later check whose
\* timestamp is exactly the rejection's timestamp plus 1000 * retryAfter,
\* which is the instant the oldest entry leaves the window, Admitted
C27_Witness ==
  \E j, k \in ReqIds :
    /\ req[j].key = req[k].key /\ Rejected(j) /\ Genuine(j)
    /\ GenuinelyAdmitted(k) /\ req[k].at > req[j].at /\ outages = 0
    /\ req[k].now = req[j].now + MsPerSec * req[j].out.retryAfter
    /\ \A i \in ReqIds \ {j, k} :
         (Admitted(i) /\ req[i].key = req[j].key) => req[i].at < req[j].at

\* ------------------------------------------------------------------ C28
\* the decision checkRateLimit would return for i's key and timestamp on the
\* sorted set S
WouldDecide(i, S) ==
  LET now == req[i].now
      sc  == LuaScript(S, now, now - WindowMs, LimitOf(i), i, WindowMs)
  IN [count |-> sc.reply[2] - sc.reply[1],
      out   |-> FromReply(LimitOf(i), now, sc.reply)]

\* C28: with one request at a time, a peek purges what a check with the same
\* now would purge and reports remaining = max(0, limit - count), count being
\* the count that check would find after its purge: a check of the key with
\* the same now that is Admitted has the peek's remaining minus one, and if
\* it is Rejected the peek's remaining is 0.
C28_PeekAgreesWithCheck ==
  /\ [][\A i \in ReqIds :
          /\ (PeekStep(i) /\ req[i].pc = "sampled" /\ req'[i].pc = "purged") =>
                store'[KeyOf(i)].set = Window(i)
          /\ PeekReturn(i) =>
                LET w == WouldDecide(i, store[KeyOf(i)].set)
                IN /\ req[i].count = w.count
                   /\ req'[i].out.remaining = Max(0, LimitOf(i) - w.count)
                   /\ ~w.out.thrown => w.out.remaining = req'[i].out.remaining - 1
                   /\ w.out.thrown => req'[i].out.remaining = 0]_vars
  /\ [](\A i, j \in ReqIds :
          ( /\ IsPeek(i) /\ Genuine(i) /\ IsCheck(j) /\ Genuine(j)
            /\ req[j].key = req[i].key /\ req[j].now = req[i].now
            /\ req[j].at = req[i].at + 1 )
          => /\ Admitted(j) => req[j].out.remaining = req[i].out.remaining - 1
             /\ Rejected(j) => req[i].out.remaining = 0)

\* a peek of a window with one entry and a limit of 2 reported remaining = 1,
\* and the check that followed it at the same now was Admitted with
\* remaining = 0
C28_Witness ==
  \E i, j \in ReqIds :
    /\ IsPeek(i) /\ Genuine(i) /\ GenuinelyAdmitted(j)
    /\ req[j].key = req[i].key /\ req[j].now = req[i].now
    /\ req[j].at = req[i].at + 1
    /\ LimitOf(i) = 2 /\ req[i].count = 1
    /\ req[i].out.remaining = 1 /\ req[j].out.remaining = 0

\* ------------------------------------------------------------------ C29
\* this step is the expiration of key k, which held entries
ExpiryStep(k) == clock' > clock /\ store[k].set # {} /\ store'[k] = EmptyKey

\* C29: every admission sets the key's time-to-live to ceil(WindowMs / 1000)
\* seconds from the time the script runs; every stored entry therefore has a
\* score of at most the key's expiry time minus WindowMs, and when the key
\* expires every entry it held has such a score and has left the window of
\* the time of the expiry.
C29_ExpiryOutlivesWindow ==
  /\ [][/\ \A i \in ReqIds :
            (ReplyStep(i) /\ ~req'[i].out.thrown) =>
              store'[KeyOf(i)].expireAt = clock + CeilDiv(WindowMs, MsPerSec) * MsPerSec
         /\ \A k \in Keys :
              ExpiryStep(k) =>
                \A e \in store[k].set : /\ e.score <= store[k].expireAt - WindowMs
                                         /\ e.score <= clock' - WindowMs]_vars
  /\ [](\A k \in Keys : \A e \in store[k].set :
          store[k].expireAt # NoExpire /\ e.score <= store[k].expireAt - WindowMs)

\* the key of an admitted check has expired: no command touched it after the
\* check's script, more than WindowMs have passed and the key is gone
C29_Witness ==
  \E i \in ReqIds :
    /\ GenuinelyAdmitted(i) /\ ops[KeyOf(i)] = req[i].at
    /\ store[KeyOf(i)] = EmptyKey
    /\ clock > req[i].now + WindowMs

\* ------------------------------------------------------------------ C30
\* C30: the result of an Admitted check tells the fail-open path from a
\* genuine admission: remaining = limit if and only if the catch block
\* produced it, and a genuine admission has 0 <= remaining <= limit - 1.
C30_FailOpenDistinguishable ==
  \A i \in ReqIds :
    Admitted(i) =>
      /\ (req[i].out.remaining = LimitOf(i)) <=> req[i].out.failOpen
      /\ Genuine(i) => /\ 0 <= req[i].out.remaining
                       /\ req[i].out.remaining <= LimitOf(i) - 1
                       /\ req[i].reply[1] = 1

\* for one key, a genuine admission with remaining = limit - 1 and an
\* admission by the catch block with remaining = limit
C30_Witness ==
  \E i, j \in ReqIds :
    /\ req[i].key = req[j].key
    /\ GenuinelyAdmitted(i) /\ req[i].out.remaining = LimitOf(i) - 1
    /\ Admitted(j) /\ req[j].out.failOpen /\ req[j].out.remaining = LimitOf(j)

TypeOK ==
  /\ clock \in Int
  /\ redisUp \in BOOLEAN
  /\ \A i \in ReqIds : req[i].pc \in {"idle", "sampled", "purged", "counted", "done"}
====
